---- MODULE Spec2Model ----
(***************************************************************************)
(* A model of the research-agent ingestion pipeline: the SQLite store of   *)
(* src/research_agent/src/storage/db.py (upsert_article,                   *)
(* upsert_crawled_content, fetch_articles_for_embedding,                   *)
(* aggregate_signals), the ingest batch of src/research_agent/cli.py       *)
(* (cmd_ingest) with its indexing step, build_document_for_embedding of    *)
(* src/processors/preprocess.py, VectorStore.add_documents of              *)
(* src/vector_store/vector_store.py, MarketValidator._compute_score of     *)
(* src/processors/validator.py and the URL selection of                    *)
(* ContentProcessor.crawl_content_from_urls of                             *)
(* src/processors/content_processor.py.                                    *)
(*                                                                         *)
(* Values.  A Python/SQL scalar is NULL (None, SQL NULL, an absent dict    *)
(* key read with .get) or Some(x).  URLs and tags are strings ("" is the   *)
(* empty string); titles and other free text are sequences of characters   *)
(* (<<>> is the empty text); numbers are naturals; ISO timestamps are      *)
(* naturals ordered as the ISO strings are ordered, 0 standing for the     *)
(* empty string, which sorts before every timestamp.                       *)
(***************************************************************************)
EXTENDS Naturals, Sequences, FiniteSets, TLC

VARIABLES
    db,      \* the committed database: articles, crawled_content, sqlite_sequence
    clock,   \* the latest value datetime.utcnow() has returned
    last,    \* the last call made through the sequential API, with its outcome
    keys,    \* SpecMerge: the dict keys the records of this run may carry
    procs,   \* SpecConc: each concurrent caller's call and position in it
    lock,    \* SpecConc: the connection holding SQLite's write lock, 0 if none
    work,    \* SpecConc: the uncommitted database of the lock holder
    base,    \* SpecConc: the committed database when the round of calls began
    ing,     \* SpecIngest: the cmd_ingest run: position, inputs, locals
    index,   \* the Chroma collection research_articles: its entries
    hist     \* per canonical URL, what the successful upsert_article calls supplied

vars == <<db, clock, last, keys, procs, lock, work, base, ing, index, hist>>

----------------------------------------------------------------------------
(* Bounds *)

\* datetime.utcnow() takes values 1..MaxClock
MaxClock == 2

\* a source list of an ingest batch holds at most MaxList records
MaxList == 1

\* a list of social items holds at most MaxItems items
MaxItems == 2

----------------------------------------------------------------------------
(* Values *)

NULL == <<>>

Some(x) == <<x>>

\* Python truthiness of an optional string: None and '' are falsy
FalsyStrNoneOnly(v) == v = NULL

FalsyStr(v) == v = NULL \/ v[1] = ""

\* Python truthiness of an optional number (or ISO timestamp, 0 = ''): None, 0
FalsyNum(v) == v = NULL \/ v[1] = 0

\* Python `a or b` on optional strings
PyOrStr(a, b) == IF FalsyStr(a) THEN b ELSE a

\* Python `a or b` on optional numbers
PyOrNum(a, b) == IF FalsyNum(a) THEN b ELSE a

\* SQL COALESCE(x, y)
CoalesceOverwrite(x, y) == x

Coalesce(x, y) == IF x # NULL THEN x ELSE y

\* int(x or 0)
IntOrZeroAsIs(x) == x

IntOrZero(x) == PyOrNum(x, Some(0))

----------------------------------------------------------------------------
(* Records handed to upsert_article *)

ArticleKeys ==
    {"url", "arxiv_url", "hn_url", "title", "source", "author", "created_at",
     "published_date", "points", "comments_count", "description", "abstract",
     "category", "arxiv_id"}

\* the columns of articles that UPDATE coalesces (updated_at is always refreshed)
MergeFields ==
    {"title", "source", "author", "created_at", "published_date", "points",
     "comments_count", "description", "abstract", "category", "arxiv_id",
     "hn_url", "topic"}

\* a dict with no key set: article.get(k) is None for every k
BlankArticle == [k \in ArticleKeys |-> NULL]

\* the dict b overlaid on a
With(a, b) == [k \in DOMAIN a |-> IF k \in DOMAIN b THEN b[k] ELSE a[k]]

----------------------------------------------------------------------------
(* The database *)

EmptyDb ==
    [articles |-> {}, crawled_content |-> {},
     seq |-> [articles |-> 0, crawled_content |-> 0]]

\* url = article.get('url') or article.get('arxiv_url') or article.get('hn_url')
CanonicalUrl(article) ==
    PyOrStr(PyOrStr(article.url, article.arxiv_url), article.hn_url)

\* SELECT id FROM articles WHERE url = ?  (cur.fetchone(): a row's id or None)
SelectArticleIdAnyUrl(d, url) ==
    IF d.articles # {}
    THEN Some((CHOOSE r \in d.articles : TRUE).id)
    ELSE NULL

SelectArticleId(d, url) ==
    IF url # NULL /\ \E r \in d.articles : r.url = url
    THEN Some((CHOOSE r \in d.articles : r.url = url).id)
    ELSE NULL

\* the stored articles with this url
RowsOf(d, url) == {r \in d.articles : r.url = url}

\* SELECT id FROM crawled_content WHERE article_id = ?
SelectContentId(d, article_id) ==
    IF article_id # NULL /\ \E c \in d.crawled_content : c.article_id = article_id
    THEN Some((CHOOSE c \in d.crawled_content : c.article_id = article_id).id)
    ELSE NULL

\* url TEXT UNIQUE: may a row with this url be added (NULLs never collide)
ArticleUrlUniqueOff(d, url) == TRUE

ArticleUrlUnique(d, url) ==
    url = NULL \/ ~ \E r \in d.articles : r.url = url

\* UNIQUE(article_id) on crawled_content
ContentOwnerUniqueOff(d, article_id) == TRUE

ContentOwnerUnique(d, article_id) ==
    article_id = NULL \/ ~ \E c \in d.crawled_content : c.article_id = article_id

\* the SET list of UPDATE articles
UpdateArticleRowRestamp(row, article, topic, now) ==
    [row EXCEPT !.inserted_at = Some(now), !.updated_at = Some(now)]

UpdateArticleRow(row, article, topic, now) ==
    [row EXCEPT
        !.title = Coalesce(article.title, @),
        !.source = Coalesce(article.source, @),
        !.author = Coalesce(article.author, @),
        !.created_at = Coalesce(article.created_at, @),
        !.published_date = Coalesce(article.published_date, @),
        !.points = Coalesce(article.points, @),
        !.comments_count = Coalesce(article.comments_count, @),
        !.description = Coalesce(article.description, @),
        !.abstract = Coalesce(article.abstract, @),
        !.category = Coalesce(article.category, @),
        !.arxiv_id = Coalesce(article.arxiv_id, @),
        !.hn_url = Coalesce(article.hn_url, @),
        !.topic = Coalesce(topic, @),
        !.updated_at = Some(now)]

\* the VALUES list of INSERT INTO articles
InsertArticleRow(id, url, article, topic, now) ==
    [id |-> id,
     url |-> url,
     title |-> article.title,
     source |-> article.source,
     author |-> article.author,
     created_at |-> article.created_at,
     published_date |-> article.published_date,
     points |-> IntOrZero(article.points),
     comments_count |-> IntOrZero(article.comments_count),
     description |-> article.description,
     abstract |-> article.abstract,
     category |-> article.category,
     arxiv_id |-> article.arxiv_id,
     hn_url |-> article.hn_url,
     topic |-> topic,
     inserted_at |-> Some(now),
     updated_at |-> Some(now)]

\* The write statement of upsert_article, run on database d with the id the
\* lookup found (NULL: none).  Gives the database after it, the article id,
\* and the exception raised, if any; a statement that raises changes nothing.
ArticleWrite(d, found, url, article, topic, now) ==
    IF found # NULL
    THEN [db |-> [d EXCEPT !.articles =
                     {IF r.id = found[1]
                      THEN UpdateArticleRow(r, article, topic, now) ELSE r
                      : r \in d.articles}],
          id |-> found, err |-> "ok"]
    ELSE IF ~ ArticleUrlUnique(d, url)
    THEN [db |-> d, id |-> NULL, err |-> "IntegrityError"]
    ELSE LET id == d.seq.articles + 1 IN
         [db |-> [d EXCEPT
                     !.articles = @ \cup
                         {InsertArticleRow(id, url, article, topic, now)},
                     !.seq.articles = id],
          id |-> Some(id), err |-> "ok"]

\* the SET list of UPDATE crawled_content
UpdateContentRowNoCoalesce(row, url, markdown, word_count, crawled_at, now) ==
    [row EXCEPT
        !.url = url,
        !.markdown_content = markdown,
        !.word_count = IntOrZero(word_count),
        !.crawled_at = crawled_at,
        !.updated_at = Some(now)]

UpdateContentRow(row, url, markdown, word_count, crawled_at, now) ==
    [row EXCEPT
        !.url = url,
        !.markdown_content = markdown,
        !.word_count = IntOrZero(word_count),
        !.crawled_at = Coalesce(crawled_at, @),
        !.updated_at = Some(now)]

\* the VALUES list of INSERT INTO crawled_content
InsertContentRow(id, article_id, url, markdown, word_count, crawled_at, now) ==
    [id |-> id,
     article_id |-> article_id,
     url |-> url,
     markdown_content |-> markdown,
     word_count |-> IntOrZero(word_count),
     crawled_at |-> PyOrNum(crawled_at, Some(now)),
     updated_at |-> Some(now)]

\* The write statement of upsert_crawled_content (foreign keys are not
\* enforced: _connect never issues PRAGMA foreign_keys).
ContentWrite(d, found, article_id, url, markdown, word_count, crawled_at, now) ==
    IF found # NULL
    THEN [db |-> [d EXCEPT !.crawled_content =
                     {IF c.article_id = article_id
                      THEN UpdateContentRow(c, url, markdown, word_count,
                                            crawled_at, now)
                      ELSE c
                      : c \in d.crawled_content}],
          err |-> "ok"]
    ELSE IF ~ ContentOwnerUnique(d, article_id)
    THEN [db |-> d, err |-> "IntegrityError"]
    ELSE LET id == d.seq.crawled_content + 1 IN
         [db |-> [d EXCEPT
                     !.crawled_content = @ \cup
                         {InsertContentRow(id, article_id, url, markdown,
                                           word_count, crawled_at, now)},
                     !.seq.crawled_content = id],
          err |-> "ok"]

\* `with self._connect() as conn:` on leaving the block: sqlite3 commits the
\* open transaction when the block ends normally and rolls it back when it
\* ends with an exception.
ConnExitAlwaysCommit(committed, working, exc) == working

ConnExit(committed, working, exc) == IF exc THEN committed ELSE working

\* Where the environment makes the call fail: "write", cur.execute of the
\* INSERT or UPDATE raises (a parameter that cannot be converted or bound,
\* disk, lock timeout) and changes nothing; "commit", conn.commit() raises.
Faults == {"none", "write", "commit"}

\* upsert_article as one call on database d
UpsertArticle(d, article, topic, now, fault) ==
    LET url == CanonicalUrl(article) IN
    IF FalsyStr(url)
    THEN [db |-> d, ret |-> NULL, err |-> "ValueError"]
    ELSE LET found == SelectArticleId(d, url)
             w == ArticleWrite(d, found, url, article, topic, now)
         IN  IF fault = "write"
             THEN [db |-> ConnExit(d, d, TRUE), ret |-> NULL,
                   err |-> "OperationalError"]
             ELSE IF w.err # "ok"
             THEN [db |-> ConnExit(d, w.db, TRUE), ret |-> NULL, err |-> w.err]
             ELSE IF fault = "commit"
             THEN [db |-> ConnExit(d, w.db, TRUE), ret |-> NULL,
                   err |-> "OperationalError"]
             ELSE [db |-> ConnExit(d, w.db, FALSE), ret |-> w.id, err |-> "ok"]

\* upsert_crawled_content as one call on database d
UpsertCrawledContent(d, article_id, url, markdown, word_count, crawled_at, now, fault) ==
    LET found == SelectContentId(d, article_id)
        w == ContentWrite(d, found, article_id, url, markdown, word_count,
                          crawled_at, now)
    IN  IF fault = "write"
        THEN [db |-> ConnExit(d, d, TRUE), err |-> "OperationalError"]
        ELSE IF w.err # "ok"
        THEN [db |-> ConnExit(d, w.db, TRUE), err |-> w.err]
        ELSE IF fault = "commit"
        THEN [db |-> ConnExit(d, w.db, TRUE), err |-> "OperationalError"]
        ELSE [db |-> ConnExit(d, w.db, FALSE), err |-> "ok"]

----------------------------------------------------------------------------
(* Inputs *)

\* free text, as sequences of characters
TxtStory == <<"H", "N">>

TxtHello == <<"h", "e", "l", "l", "o">>

TxtBody == <<"b", "o", "d", "y">>

\* a discussion-site story as fetch_hackernews builds it
HNRecord(url, hn_url) ==
    With(BlankArticle,
         [url |-> url, hn_url |-> hn_url, title |-> Some(TxtStory),
          points |-> Some(10), comments_count |-> Some(3),
          created_at |-> Some(1), source |-> Some("hackernews")])

\* a feed item as parse_rss_feeds builds it
RSSRecord(url) ==
    With(BlankArticle,
         [url |-> url, description |-> Some(TxtHello),
          published_date |-> Some(2), source |-> Some("rss")])

\* a preprint as fetch_arxiv_papers builds it: no url key, an arxiv_url
ArxivRecord(arxiv_url) ==
    With(BlankArticle,
         [arxiv_url |-> arxiv_url, abstract |-> Some(TxtBody),
          published_date |-> Some(1), source |-> Some("arxiv"),
          category |-> Some("cs.AI"), arxiv_id |-> Some("2401.1")])

\* records with no identifying URL at all
NoIdentRecords ==
    {BlankArticle,
     With(BlankArticle, [url |-> Some(""), title |-> Some(TxtStory)]),
     HNRecord(Some(""), Some(""))}

\* the records the sequential store API is driven with
SpecArticles ==
    {HNRecord(Some("u1"), Some("h1")), RSSRecord(Some("u1")),
     ArxivRecord(Some("u2"))}
    \cup NoIdentRecords

SpecMarkdown == {Some(TxtBody), Some(TxtHello)}

----------------------------------------------------------------------------
(* The sequential store API *)

\* no call yet; n alternates between 0 and 1 from one call to the next
NoCall == [op |-> "none", n |-> 0]

\* the concurrent callers: two processes, each with its own connection
Procs == {1, 2}

\* a caller between calls
IdleProc == [pc |-> "idle", call |-> NoCall, found |-> NULL, ret |-> NULL, err |-> "ok"]

IdleProcs == [p \in Procs |-> IdleProc]

\* results with no record and no crawl result
EmptyResults == [hackernews |-> <<>>, arxiv |-> <<>>, rss |-> <<>>, crawled_content |-> <<>>]

\* an empty dict
EmptyMap == [k \in {} |-> NULL]

\* cmd_ingest not running
IdleIngest ==
    [pc |-> "idle", i |-> 1, results |-> EmptyResults,
     article_id_map |-> EmptyMap, batch |-> <<>>]

\* no call of upsert_article has succeeded yet
NoHistory == [u \in {} |-> NULL]

\* what a call of upsert_article(article, topic) supplies for column f
Supplied(article, topic, f) == IF f = "topic" THEN topic ELSE article[f]

\* The history after one more successful call of upsert_article for url, made
\* at time now and returning ret: per canonical URL, the id the first call
\* returned, every id returned, the times of the first and of the latest
\* call, and for each column the latest non-null value a call supplied.
Remember(h, url, article, topic, ret, now) ==
    LET entry ==
          IF url \in DOMAIN h
          THEN [h[url] EXCEPT
                   !.ids = @ \cup {ret},
                   !.last_time = now,
                   !.latest = [f \in MergeFields |->
                                 IF Supplied(article, topic, f) # NULL
                                 THEN Supplied(article, topic, f) ELSE @[f]]]
          ELSE [first_id |-> ret, ids |-> {ret},
                first_time |-> now, last_time |-> now,
                latest |-> [f \in MergeFields |-> Supplied(article, topic, f)]]
    IN  [u \in DOMAIN h \cup {url} |-> IF u = url THEN entry ELSE h[u]]

Init ==
    /\ db = EmptyDb
    /\ clock = 1
    /\ last = NoCall
    /\ keys = {}
    /\ procs = IdleProcs
    /\ lock = 0
    /\ work = EmptyDb
    /\ base = EmptyDb
    /\ ing = IdleIngest
    /\ index = {}
    /\ hist = NoHistory

\* datetime.utcnow() moves on between two calls
Tick ==
    /\ clock < MaxClock
    /\ clock' = clock + 1
    /\ UNCHANGED <<db, last, keys, procs, lock, work, base, ing, index, hist>>

\* a call of upsert_article(article, topic); now = datetime.utcnow()
CallUpsertArticle(article, topic, fault) ==
    LET out == UpsertArticle(db, article, topic, clock, fault) IN
    /\ db' = out.db
    /\ last' = [op |-> "upsert_article", n |-> 1 - last.n, article |-> article,
                topic |-> topic, fault |-> fault, ret |-> out.ret,
                err |-> out.err]
    /\ hist' = IF out.err = "ok"
               THEN Remember(hist, CanonicalUrl(article), article, topic,
                             out.ret, clock)
               ELSE hist
    /\ UNCHANGED <<clock, keys, procs, lock, work, base, ing, index>>

\* a call of upsert_crawled_content(article_id, url, markdown, word_count, crawled_at)
CallUpsertCrawledContent(article_id, url, markdown, word_count, crawled_at, fault) ==
    LET out == UpsertCrawledContent(db, article_id, url, markdown, word_count,
                                    crawled_at, clock, fault) IN
    /\ db' = out.db
    /\ last' = [op |-> "upsert_crawled_content", n |-> 1 - last.n,
                article_id |-> article_id, url |-> url, markdown |-> markdown, word_count |-> word_count,
                crawled_at |-> crawled_at, fault |-> fault, err |-> out.err]
    /\ UNCHANGED <<clock, keys, procs, lock, work, base, ing, index, hist>>

----------------------------------------------------------------------------
(* Spec: the store driven through its API, one call at a time, any call     *)
(* possibly failing at its write or at its commit.  All calls fall within   *)
(* one reading of the clock.                                                *)

StoreUpsertArticle ==
    \E article \in SpecArticles, fault \in Faults :
        CallUpsertArticle(article, Some("ai"), fault)

StoreUpsertCrawledContent ==
    \E article_id \in {Some(1), Some(3)}, markdown \in SpecMarkdown,
       fault \in Faults :
        CallUpsertCrawledContent(article_id, Some("u1"), markdown, Some(4),
                                 NULL, fault)

Next == StoreUpsertArticle \/ StoreUpsertCrawledContent

Spec == Init /\ [][Next]_vars

----------------------------------------------------------------------------
(* Claims on Spec *)

\* this step is a call through the sequential API
Called == last'.n # last.n

\* this step repeats the previous call with the same arguments
CalledAgain == Called /\ last' = [last EXCEPT !.n = 1 - @]

\* the record carries no identifying URL: none of url, arxiv_url, hn_url is non-empty
NoIdentifier(article) ==
    /\ article.url \in {NULL, Some("")}
    /\ article.arxiv_url \in {NULL, Some("")}
    /\ article.hn_url \in {NULL, Some("")}

\* C4: a call of upsert_article on a record with no non-empty url, arxiv_url
\* or hn_url ends with an error, returns no id, and leaves articles and
\* crawled_content exactly as they were.
C4_MissingIdentifierFails ==
    [][(Called /\ last'.op = "upsert_article" /\ NoIdentifier(last'.article))
        => (last'.err = "ValueError" /\ last'.ret = NULL /\ db' = db)]_vars

\* C4 happens: the last call was refused for a missing identifier on a store
\* that already holds articles
C4_Witness ==
    /\ last.op = "upsert_article"
    /\ NoIdentifier(last.article)
    /\ last.article.url = Some("")
    /\ last.err = "ValueError"
    /\ db.articles # {}

\* C6: a call of upsert_article or upsert_crawled_content that ends with an
\* error, wherever it is raised, leaves the committed tables as they were.
C6_FailedCallCommitsNothing ==
    [][(Called /\ last'.err # "ok") => db' = db]_vars

\* C6 happens: a content upsert whose UPDATE would have replaced the stored
\* text failed at commit, and the stored text is still the old one
C6_Witness ==
    /\ last.op = "upsert_crawled_content"
    /\ last.fault = "commit"
    /\ last.err = "OperationalError"
    /\ \E c \in db.crawled_content :
          c.article_id = last.article_id /\ c.markdown_content # last.markdown

\* C22: once upsert_article has stored a URL, after any further calls of
\* upsert_article and upsert_crawled_content an article with that URL still
\* exists, its id is the one the first upsert returned, every later upsert of
\* the URL has returned that same id, and no two URLs have received one id.
C22_IdentityStable ==
    /\ \A url \in DOMAIN hist :
          /\ hist[url].first_id # NULL
          /\ hist[url].ids = {hist[url].first_id}
          /\ RowsOf(db, url) # {}
          /\ \A r \in RowsOf(db, url) : Some(r.id) = hist[url].first_id
    /\ \A u, v \in DOMAIN hist :
          u # v => hist[u].first_id # hist[v].first_id

\* C22 happens: u1 has been upserted by the story record and by the feed
\* record, u2 has been stored after it, and content has been attached since
C22_Witness ==
    /\ DOMAIN hist = {Some("u1"), Some("u2")}
    /\ hist[Some("u1")].latest.title # NULL
    /\ hist[Some("u1")].latest.description # NULL
    /\ hist[Some("u1")].first_id = Some(1)
    /\ hist[Some("u2")].first_id = Some(2)
    /\ last.op = "upsert_crawled_content"
    /\ last.err = "ok"
    /\ db.crawled_content # {}

\* C28: in every state reached by calls of upsert_article and
\* upsert_crawled_content, a call of upsert_crawled_content with an id that
\* no article has included, the article_id of every crawled_content row is
\* the id of a stored article.
C28_ContentOwnerExists ==
    \A c \in db.crawled_content :
        \E r \in db.articles : c.article_id = Some(r.id)

----------------------------------------------------------------------------
(* SpecMerge: upsert_article alone on one URL, the records of a run drawn   *)
(* over a set of keys fixed at the start, the clock moving between calls.   *)

\* the values a key takes when a record carries it
FieldVals(f) ==
    CASE f \in {"title", "description", "abstract"} -> {<<>>, TxtHello}
      [] f \in {"points"} -> {0, 10}
      [] f \in {"comments_count"} -> {0, 3}
      [] f \in {"created_at", "published_date"} -> {1, 2}
      [] OTHER -> {"", "x"}

\* the key sets of a run: every pair of merged columns, and the three
\* columns of the discussion-site/feed scenario
KeySets ==
    {{f, g} : f, g \in MergeFields}
    \cup {{"points", "comments_count", "description"}}

\* what a record may carry under key k: nothing, or one of the key's values
OptVals(k) == {NULL} \cup {Some(v) : v \in FieldVals(k)}

\* the dicts got from a by giving each key of ks any of its values, or none
RECURSIVE Assignments(_, _)
Assignments(ks, a) ==
    IF ks = {}
    THEN {a}
    ELSE LET k == CHOOSE x \in ks : TRUE IN
         UNION {Assignments(ks \ {k}, [a EXCEPT ![k] = v]) : v \in OptVals(k)}

\* the records for url u1 whose non-null keys lie in ks
MergeRecords(ks) ==
    Assignments(ks \cap ArticleKeys, With(BlankArticle, [url |-> Some("u1")]))

\* the topic argument: given only when the run's keys include topic
MergeTopics(ks) == IF "topic" \in ks THEN OptVals("topic") ELSE {NULL}

InitMerge ==
    /\ db = EmptyDb
    /\ clock = 1
    /\ last = NoCall
    /\ keys \in KeySets
    /\ procs = IdleProcs
    /\ lock = 0
    /\ work = EmptyDb
    /\ base = EmptyDb
    /\ ing = IdleIngest
    /\ index = {}
    /\ hist = NoHistory

MergeUpsert ==
    \E article \in MergeRecords(keys), topic \in MergeTopics(keys) :
        CallUpsertArticle(article, topic, "none")

NextMerge == MergeUpsert \/ Tick

SpecMerge == InitMerge /\ [][NextMerge]_vars

\* what a call of upsert_article supplies for column f
Incoming(call, f) == IF f = "topic" THEN call.topic ELSE call.article[f]

\* C1: when upsert_article is called for a canonical URL that is already
\* stored, every column other than updated_at that the call gives as
\* null/absent keeps its stored value, whatever the other columns carry; and
\* {url u1, description "hello"} upserted onto a stored u1 with points 10 and
\* comments_count 3 leaves points 10, comments_count 3, description "hello".
C1_MergeNeverRegresses ==
    [][(Called /\ last'.op = "upsert_article") =>
        LET url == CanonicalUrl(last'.article) IN
        /\ \A r \in RowsOf(db, url) : \A f \in MergeFields :
              Incoming(last', f) = NULL =>
                 \E r2 \in RowsOf(db', url) : r2.id = r.id /\ r2[f] = r[f]
        /\ ( /\ last'.article =
                  With(BlankArticle,
                       [url |-> Some("u1"), description |-> Some(TxtHello)])
             /\ \E r \in RowsOf(db, url) :
                   r.points = Some(10) /\ r.comments_count = Some(3) )
           => \A r2 \in RowsOf(db', url) :
                 /\ r2.points = Some(10)
                 /\ r2.comments_count = Some(3)
                 /\ r2.description = Some(TxtHello)
       ]_vars

\* C1 happens: the feed record {url u1, description "hello"} was merged, at a
\* later time, into the row a record with points 10 and comments_count 3 had
\* inserted
C1_Witness ==
    /\ last.op = "upsert_article"
    /\ last.article =
          With(BlankArticle, [url |-> Some("u1"), description |-> Some(TxtHello)])
    /\ \E r \in db.articles :
          /\ r.url = Some("u1")
          /\ r.points = Some(10)
          /\ r.comments_count = Some(3)
          /\ r.description = Some(TxtHello)
          /\ r.inserted_at # r.updated_at

\* what a column holds when no call has supplied a value for it
DefaultOf(f) == IF f \in {"points", "comments_count"} THEN Some(0) ELSE NULL

\* C21: after any sequence of successful upsert_article calls for one
\* canonical URL, each merged column of the stored article holds the value of
\* the most recent call that supplied a non-null value for it (0 and the
\* empty string counting as non-null), and when no call supplied one it holds
\* null, or 0 for points and comments_count.
C21_LatestNonNullWins ==
    \A url \in DOMAIN hist :
        /\ RowsOf(db, url) # {}
        /\ \A r \in RowsOf(db, url) : \A f \in MergeFields :
              r[f] = IF hist[url].latest[f] # NULL
                     THEN hist[url].latest[f] ELSE DefaultOf(f)

\* C21 happens: a later call supplying points 0 and no description has
\* updated a row that keeps the description of an earlier call, holds points
\* 0, and holds comments_count 0 without any call having supplied one
C21_Witness ==
    /\ last.op = "upsert_article"
    /\ last.err = "ok"
    /\ last.article.points = Some(0)
    /\ last.article.description = NULL
    /\ Some("u1") \in DOMAIN hist
    /\ hist[Some("u1")].latest.comments_count = NULL
    /\ \E r \in RowsOf(db, Some("u1")) :
          /\ r.points = Some(0)
          /\ r.description = Some(TxtHello)
          /\ r.comments_count = Some(0)
          /\ r.inserted_at # r.updated_at

\* points and comments_count of every stored article are non-null
CountsNonNull ==
    \A r \in db.articles : r.points # NULL /\ r.comments_count # NULL

\* a successful call that inserts a new article stores 0 for each of points
\* and comments_count that its record gives as absent or null
InsertDefaultsCounts ==
    (Called /\ last'.op = "upsert_article" /\ last'.err = "ok"
        /\ RowsOf(db, CanonicalUrl(last'.article)) = {}) =>
        /\ RowsOf(db', CanonicalUrl(last'.article)) # {}
        /\ \A r \in RowsOf(db', CanonicalUrl(last'.article)) :
              \A f \in {"points", "comments_count"} :
                  last'.article[f] = NULL => r[f] = Some(0)

\* C26: inserting a new article stores points and comments_count as 0 when
\* the record gives them as absent or null, and in every state reachable by
\* calls of upsert_article the points and comments_count of every stored
\* article are non-null.
C26_CountsDefaultZero == []CountsNonNull /\ [][InsertDefaultsCounts]_vars

\* C26 happens: an article inserted without points and comments_count, and
\* updated later by a call that again gave neither, holds 0 for both
C26_Witness ==
    /\ last.op = "upsert_article"
    /\ last.err = "ok"
    /\ last.article.points = NULL
    /\ last.article.comments_count = NULL
    /\ Some("u1") \in DOMAIN hist
    /\ hist[Some("u1")].latest.points = NULL
    /\ hist[Some("u1")].latest.comments_count = NULL
    /\ \E r \in RowsOf(db, Some("u1")) :
          /\ r.points = Some(0)
          /\ r.comments_count = Some(0)
          /\ r.updated_at # r.inserted_at

\* C27: the first upsert of a URL sets inserted_at and updated_at to the time
\* of that call; every later upsert of the URL sets updated_at to the time
\* of the later call, also when every incoming field is null, and leaves
\* inserted_at as it was, so that inserted_at <= updated_at while call times
\* do not decrease.
C27_Timestamps ==
    \A url \in DOMAIN hist :
        /\ RowsOf(db, url) # {}
        /\ \A r \in RowsOf(db, url) :
              /\ r.inserted_at = Some(hist[url].first_time)
              /\ r.updated_at = Some(hist[url].last_time)
              /\ r.inserted_at[1] <= r.updated_at[1]

\* C27 happens: a record carrying nothing but the URL, upserted with no
\* topic at time 2, has refreshed updated_at of the row inserted at time 1
C27_Witness ==
    /\ last.op = "upsert_article"
    /\ last.err = "ok"
    /\ last.article = With(BlankArticle, [url |-> Some("u1")])
    /\ last.topic = NULL
    /\ clock = 2
    /\ \E r \in RowsOf(db, Some("u1")) :
          r.inserted_at = Some(1) /\ r.updated_at = Some(2)

----------------------------------------------------------------------------
(* SpecContent: upsert_crawled_content alone, on the content of one         *)
(* article, the clock moving between calls.                                 *)

ContentUrls == {NULL, Some("u1")}

ContentMarkdowns == {NULL, Some(TxtBody), Some(TxtHello)}

ContentWordCounts == {NULL, Some(4)}

\* crawled_at: absent, the empty string, or the time of the crawl
ContentCrawledAts == {NULL, Some(0), Some(1)}

ContentUpsert ==
    \E url \in ContentUrls, markdown \in ContentMarkdowns,
       word_count \in ContentWordCounts, crawled_at \in ContentCrawledAts :
        CallUpsertCrawledContent(Some(1), url, markdown, word_count,
                                 crawled_at, "none")

NextContent == ContentUpsert \/ Tick

SpecContent == Init /\ [][NextContent]_vars

\* the crawled_content rows owned by this article id
ContentOf(d, article_id) ==
    {c \in d.crawled_content : c.article_id = article_id}

\* what a call of upsert_crawled_content passes for column f
Passed(call, f) ==
    CASE f = "url" -> call.url
      [] f = "markdown_content" -> call.markdown
      [] f = "word_count" -> call.word_count
      [] f = "crawled_at" -> call.crawled_at

ContentFields == {"url", "markdown_content", "word_count", "crawled_at"}

\* C8 as stated: on an existing content row every one of url,
\* markdown_content, word_count, crawled_at passed as null keeps its stored
\* value and every one passed non-null replaces it.
C8_AttachCoalescesAll ==
    [][(Called /\ last'.op = "upsert_crawled_content") =>
        \A c \in ContentOf(db, last'.article_id) : \A f \in ContentFields :
            \E c2 \in ContentOf(db', last'.article_id) :
                c2[f] = Coalesce(Passed(last', f), c[f])]_vars

\* C8 amended: on an existing content row only crawled_at is coalesced (null
\* keeps the stored value, non-null replaces it); url and markdown_content
\* become the passed value even when it is null, and word_count becomes
\* int(word_count or 0), which is 0 when null is passed.
C8_AttachCoalescesCrawledAtOnly ==
    [][(Called /\ last'.op = "upsert_crawled_content") =>
        \A c \in ContentOf(db, last'.article_id) :
            \E c2 \in ContentOf(db', last'.article_id) :
                /\ c2.id = c.id
                /\ c2.crawled_at = Coalesce(last'.crawled_at, c.crawled_at)
                /\ c2.url = last'.url
                /\ c2.markdown_content = last'.markdown
                /\ c2.word_count =
                      (IF last'.word_count = NULL
                       THEN Some(0) ELSE last'.word_count)]_vars

\* C8 happens: a call passing null for all four columns has updated a row
\* whose crawled_at is still the one an earlier call stored
C8_Witness ==
    /\ last.op = "upsert_crawled_content"
    /\ last.url = NULL /\ last.markdown = NULL
    /\ last.word_count = NULL /\ last.crawled_at = NULL
    /\ \E c \in ContentOf(db, last.article_id) :
          /\ c.crawled_at = Some(1)
          /\ c.url = NULL /\ c.markdown_content = NULL
          /\ c.word_count = Some(0)
          /\ c.updated_at = Some(2)

\* a content row without its updated_at
SansUpdatedAt(c) == [f \in DOMAIN c \ {"updated_at"} |-> c[f]]

\* C9: attaching content to an entity that has content replaces url,
\* markdown_content and word_count by the new non-null values in the one
\* existing row, and attaching the same (id, url, text, word_count,
\* crawled_at) a second time leaves the row as the first attachment left it,
\* apart from updated_at.
C9_AttachIdempotent ==
    [][(Called /\ last'.op = "upsert_crawled_content") =>
        /\ \A c \in ContentOf(db, last'.article_id) :
              /\ ContentOf(db', last'.article_id) =
                    {c2 \in db'.crawled_content : c2.id = c.id}
              /\ Cardinality(ContentOf(db', last'.article_id)) = 1
              /\ \A c2 \in ContentOf(db', last'.article_id) :
                    \A f \in {"url", "markdown_content", "word_count"} :
                        Passed(last', f) # NULL => c2[f] = Passed(last', f)
        /\ CalledAgain =>
              {SansUpdatedAt(c) : c \in ContentOf(db', last'.article_id)} =
              {SansUpdatedAt(c) : c \in ContentOf(db, last'.article_id)}
       ]_vars

----------------------------------------------------------------------------
(* SpecConc: two processes call the store at the same time, each through    *)
(* its own connection.  A call is three steps: the lookup (SELECT, outside  *)
(* any transaction), the write (sqlite3 opens the transaction and takes     *)
(* SQLite's write lock; a writer waits while another connection holds it),  *)
(* and the commit.  Calls come in rounds of one call per process.           *)

\* the calls a process may make
ConcCalls ==
    {[op |-> "upsert_article", article |-> a, topic |-> Some("ai")] :
        a \in {With(BlankArticle, [url |-> Some("u1"), points |-> Some(10),
                                   comments_count |-> Some(3)]),
               With(BlankArticle, [url |-> Some("u1"),
                                   description |-> Some(TxtHello)]),
               ArxivRecord(Some("u2"))}}
    \cup
    {[op |-> "upsert_crawled_content", article_id |-> Some(1),
      url |-> Some("u1"), markdown |-> md, word_count |-> Some(4),
      crawled_at |-> Some(1)] : md \in SpecMarkdown}

\* lines 70-77 / 150-154: resolve the URL and look the row up
ConcStart(p) ==
    /\ procs[p].pc = "idle"
    /\ \E call \in ConcCalls :
          procs' = [procs EXCEPT ![p] =
             IF call.op = "upsert_article"
             THEN IF FalsyStr(CanonicalUrl(call.article))
                  THEN [pc |-> "done", call |-> call, found |-> NULL,
                        ret |-> NULL, err |-> "ValueError"]
                  ELSE [pc |-> "write", call |-> call,
                        found |-> SelectArticleId(db, CanonicalUrl(call.article)),
                        ret |-> NULL, err |-> "ok"]
             ELSE [pc |-> "write", call |-> call,
                   found |-> SelectContentId(db, call.article_id),
                   ret |-> NULL, err |-> "ok"]]
    /\ UNCHANGED <<db, clock, last, keys, lock, work, base, ing, index, hist>>

\* the INSERT or UPDATE of process p, run on the database as committed now
ConcWriteOf(p) ==
    LET c == procs[p].call IN
    IF c.op = "upsert_article"
    THEN ArticleWrite(db, procs[p].found, CanonicalUrl(c.article), c.article,
                      c.topic, clock)
    ELSE [id |-> NULL] @@
         ContentWrite(db, procs[p].found, c.article_id, c.url, c.markdown,
                      c.word_count, c.crawled_at, clock)

\* lines 78-145 / 155-176: the write statement; a statement that raises
\* leaves the block at once and the transaction is rolled back
ConcWrite(p) ==
    /\ procs[p].pc = "write"
    /\ lock = 0
    /\ LET w == ConcWriteOf(p) IN
       IF w.err = "ok"
       THEN /\ procs' = [procs EXCEPT ![p].pc = "commit", ![p].ret = w.id]
            /\ lock' = p
            /\ work' = w.db
            /\ db' = db
       ELSE /\ procs' = [procs EXCEPT ![p].pc = "done", ![p].err = w.err]
            /\ lock' = 0
            /\ work' = EmptyDb
            /\ db' = ConnExit(db, w.db, TRUE)
    /\ UNCHANGED <<clock, last, keys, base, ing, index, hist>>

\* lines 146-147 / 177: conn.commit() and the end of the with block
ConcCommit(p) ==
    /\ procs[p].pc = "commit"
    /\ lock = p
    /\ db' = ConnExit(db, work, FALSE)
    /\ lock' = 0
    /\ work' = EmptyDb
    /\ procs' = [procs EXCEPT ![p].pc = "done"]
    /\ UNCHANGED <<clock, last, keys, base, ing, index, hist>>

\* both calls have returned: the next round of calls begins
ConcNewRound ==
    /\ \A p \in Procs : procs[p].pc = "done"
    /\ procs' = IdleProcs
    /\ base' = db
    /\ UNCHANGED <<db, clock, last, keys, lock, work, ing, index, hist>>

NextConc ==
    \/ \E p \in Procs : ConcStart(p)
    \/ \E p \in Procs : ConcWrite(p)
    \/ \E p \in Procs : ConcCommit(p)
    \/ ConcNewRound

SpecConc == Init /\ [][NextConc]_vars

\* a call run alone, start to end, on database d
RunAlone(d, call) ==
    IF call.op = "upsert_article"
    THEN UpsertArticle(d, call.article, call.topic, clock, "none")
    ELSE [ret |-> NULL] @@
         UpsertCrawledContent(d, call.article_id, call.url, call.markdown,
                              call.word_count, call.crawled_at, clock, "none")

\* the round is over: both calls have returned
RoundOver == \A p \in Procs : procs[p].pc = "done"

\* the two calls of the round are upsert_article calls on one canonical URL
SameUrlRound ==
    /\ \A p \in Procs : procs[p].call.op = "upsert_article"
    /\ CanonicalUrl(procs[1].call.article) = CanonicalUrl(procs[2].call.article)

\* the committed database and the returned ids are those of running the
\* round's calls one after the other, first then second, from base
SerialIn(first, second) ==
    LET o1 == RunAlone(base, procs[first].call)
        o2 == RunAlone(o1.db, procs[second].call)
    IN  /\ db = o2.db
        /\ procs[first].ret = o1.ret
        /\ procs[second].ret = o2.ret

\* C2: no two stored articles have the same canonical URL, and an upsert of a
\* URL that is already stored adds no row.
C2_UrlUnique ==
    /\ [](\A r1, r2 \in db.articles : r1.url = r2.url => r1 = r2)
    /\ [][\A p \in Procs :
            ( /\ procs[p].pc = "commit" /\ procs'[p].pc = "done"
              /\ procs[p].call.op = "upsert_article"
              /\ RowsOf(db, CanonicalUrl(procs[p].call.article)) # {} )
            => Cardinality(db'.articles) = Cardinality(db.articles)]_vars

\* C2 happens: two upserts of u1 ran, both looked the URL up before either
\* wrote, and u1 is stored once
C2_Witness ==
    /\ RoundOver
    /\ SameUrlRound
    /\ procs[1].call # procs[2].call
    /\ \A p \in Procs : procs[p].found = NULL
    /\ Cardinality(RowsOf(db, Some("u1"))) = 1

\* C3: two upsert_article calls on the same canonical URL, interleaved in any
\* way, both complete, and leave the store and return the ids that running
\* them one after the other in some order would.
C3_ConcurrentUpsertsSerialize ==
    (RoundOver /\ SameUrlRound) =>
        /\ \A p \in Procs : procs[p].err = "ok"
        /\ SerialIn(1, 2) \/ SerialIn(2, 1)

\* C7: each article id owns at most one crawled_content row.
C7_OneContentPerArticle ==
    \A c1, c2 \in db.crawled_content :
        c1.article_id = c2.article_id => c1 = c2

\* C7 happens: two upsert_crawled_content calls for article 1 both found no
\* row, both have returned, and article 1 owns one row
C7_Witness ==
    /\ RoundOver
    /\ \A p \in Procs :
          /\ procs[p].call.op = "upsert_crawled_content"
          /\ procs[p].call.article_id = Some(1)
          /\ procs[p].found = NULL
    /\ Cardinality(ContentOf(db, Some(1))) = 1

----------------------------------------------------------------------------
(* build_document_for_embedding (preprocess.py lines 9-20).  A text is a    *)
(* sequence of characters; the function takes optional texts and returns a  *)
(* text.                                                                    *)

\* the characters str.strip() removes
Whitespace == {" ", "\n", "\t"}

\* Python truthiness of an optional text: None and '' are falsy
FalsyTxt(v) == v = NULL \/ v[1] = <<>>

\* Python `a or b` on optional texts
PyOrTxt(a, b) == IF FalsyTxt(a) THEN b ELSE a

\* str.lstrip()
RECURSIVE LStrip(_)
LStrip(t) ==
    IF t # <<>> /\ t[1] \in Whitespace THEN LStrip(Tail(t)) ELSE t

\* str.rstrip()
RECURSIVE RStrip(_)
RStrip(t) ==
    IF t # <<>> /\ t[Len(t)] \in Whitespace
    THEN RStrip(SubSeq(t, 1, Len(t) - 1))
    ELSE t

\* str.strip()
StripNothing(t) == t

Strip(t) == RStrip(LStrip(t))

\* str.lower() on one character
LowerChar(c) ==
    CASE c = "U" -> "u" [] c = "N" -> "n" [] c = "K" -> "k" [] c = "O" -> "o"
      [] c = "W" -> "w" [] c = "T" -> "t" [] c = "S" -> "s" [] c = "C" -> "c"
      [] c = "H" -> "h"
      [] OTHER -> c

\* str.lower()
LowerAsIs(t) == t

Lower(t) == [i \in DOMAIN t |-> LowerChar(t[i])]

\* the literals of the function
TxtUnknown == <<"u", "n", "k", "n", "o", "w", "n">>

LabelTitle == <<"T", "i", "t", "l", "e", ":", " ">>

LabelSummary == <<"S", "u", "m", "m", "a", "r", "y", ":", " ">>

LabelContent == <<"C", "o", "n", "t", "e", "n", "t", ":", "\n">>

\* sep.join(parts)
RECURSIVE Join(_, _)
Join(sep, parts) ==
    IF parts = <<>>
    THEN <<>>
    ELSE IF Len(parts) = 1
    THEN parts[1]
    ELSE parts[1] \o sep \o Join(sep, Tail(parts))

\* build_document_for_embedding(title, summary, full_content)
BuildDocumentForEmbedding(title, summary, full_content) ==
    LET t == Strip(PyOrTxt(title, Some(<<>>))[1])
        s == Strip(PyOrTxt(summary, Some(<<>>))[1])
        c == Strip(PyOrTxt(full_content, Some(<<>>))[1])
        parts1 == IF t # <<>> THEN <<LabelTitle \o t>> ELSE <<>>
        parts2 == IF s # <<>> /\ Lower(s) # TxtUnknown
                  THEN Append(parts1, LabelSummary \o s)
                  ELSE parts1
        parts3 == IF c # <<>>
                  THEN Append(parts2, LabelContent \o c)
                  ELSE parts2
    IN  Join(<<"\n", "\n">>, parts3)

\* a call of build_document_for_embedding
CallBuildDocument(title, summary, full_content) ==
    /\ last' = [op |-> "build_document_for_embedding", n |-> 1 - last.n,
                title |-> title, summary |-> summary,
                full_content |-> full_content,
                ret |-> BuildDocumentForEmbedding(title, summary, full_content)]
    /\ UNCHANGED <<db, clock, keys, procs, lock, work, base, ing, index, hist>>

\* the titles, summaries and contents of SpecDoc
DocTitles ==
    {NULL, Some(<<>>), Some(<<" ">>), Some(<<"T">>), Some(<<" ", "T", "\n">>),
     Some(<<"T", " ", "x">>)}

DocSummaries ==
    {NULL, Some(<<>>), Some(<<"\n", " ">>), Some(<<"S">>), Some(<<"\t", "S", " ">>),
     Some(TxtUnknown), Some(<<"U">> \o Tail(TxtUnknown)),
     Some(<<"U", "N", "K", "N", "O", "W", "N">>),
     Some(<<" ", "u", "n", "K", "n", "o", "w", "n", "\n">>),
     Some(TxtUnknown \o <<"s">>), Some(<<"u", "n", " ", "k", "n", "o", "w", "n">>)}

DocContents ==
    {NULL, Some(<<>>), Some(<<" ">>), Some(<<"C">>),
     Some(<<"\n", "C", "\n", "\n", "c", " ">>)}

\* SpecDoc: calls of build_document_for_embedding
BuildDocument ==
    \E title \in DocTitles, summary \in DocSummaries, content \in DocContents :
        CallBuildDocument(title, summary, content)

NextDoc == BuildDocument

SpecDoc == Init /\ [][NextDoc]_vars

\* the last call was build_document_for_embedding
Built == last.op = "build_document_for_embedding"

\* the text of an optional input, an absent one being empty
TextOf(v) == IF v = NULL THEN <<>> ELSE v[1]

\* t is x without its leading and trailing whitespace
IsTrimOf(t, x) ==
    \E i, j \in 0..Len(x) :
        /\ i + j <= Len(x)
        /\ t = SubSeq(x, i + 1, Len(x) - j)
        /\ \A k \in 1..i : x[k] \in Whitespace
        /\ \A k \in (Len(x) - j + 1)..Len(x) : x[k] \in Whitespace
        /\ t # <<>> => (t[1] \notin Whitespace /\ t[Len(t)] \notin Whitespace)

\* x trimmed
Trim(x) ==
    CHOOSE t \in {SubSeq(x, a, b) : a \in 1..(Len(x) + 1), b \in 0..Len(x)} :
        IsTrimOf(t, x)

\* s is the word "unknown" in some letter case
IsUnknown(s) ==
    /\ Len(s) = 7
    /\ s[1] \in {"u", "U"} /\ s[2] \in {"n", "N"} /\ s[3] \in {"k", "K"}
    /\ s[4] \in {"n", "N"} /\ s[5] \in {"o", "O"} /\ s[6] \in {"w", "W"}
    /\ s[7] \in {"n", "N"}

\* the document of trimmed title t, summary s and content c, an empty text
\* giving no section: the sections in the order Title, Summary, Content,
\* with one blank line between two sections that follow each other
SectionsOf(t, s, c) ==
    LET blank == <<"\n", "\n">>
        none == <<>>
    IN  (IF t # none THEN <<"T", "i", "t", "l", "e", ":", " ">> \o t ELSE none)
        \o (IF t # none /\ (s # none \/ c # none) THEN blank ELSE none)
        \o (IF s # none
            THEN <<"S", "u", "m", "m", "a", "r", "y", ":", " ">> \o s
            ELSE none)
        \o (IF s # none /\ c # none THEN blank ELSE none)
        \o (IF c # none
            THEN <<"C", "o", "n", "t", "e", "n", "t", ":", "\n">> \o c
            ELSE none)

\* C14: build_document_for_embedding returns the sections "Title: <title>",
\* "Summary: <summary>", "Content:\n<content>", in this order, each built
\* from the trimmed input and present only if that input is non-empty after
\* trimming (an absent input being empty), joined by exactly one blank line.
\* (The summary "unknown", which gives no section, is the matter of C15.)
C14_SectionsInOrder ==
    Built =>
        LET t == Trim(TextOf(last.title))
            s == Trim(TextOf(last.summary))
            c == Trim(TextOf(last.full_content))
        IN  last.ret = SectionsOf(t, IF IsUnknown(s) THEN <<>> ELSE s, c)

\* a call whose three inputs all carried surrounding whitespace returned the
\* three sections built from the trimmed texts
C14_Witness ==
    /\ Built
    /\ last.title = Some(<<" ", "T", "\n">>)
    /\ last.summary = Some(<<"\t", "S", " ">>)
    /\ last.full_content = Some(<<"\n", "C", "\n", "\n", "c", " ">>)
    /\ last.ret = <<"T", "i", "t", "l", "e", ":", " ", "T", "\n", "\n",
                    "S", "u", "m", "m", "a", "r", "y", ":", " ", "S", "\n", "\n",
                    "C", "o", "n", "t", "e", "n", "t", ":", "\n",
                    "C", "\n", "\n", "c">>

\* C15: a trimmed summary that is "unknown" in any letter case gives no
\* Summary section; the result is the empty string exactly when no section
\* qualifies; build("", "Unknown", "") = "" and
\* build("T", "unknown", "") = "Title: T".
C15_UnknownSummaryOmitted ==
    Built =>
        LET t == Trim(TextOf(last.title))
            s == Trim(TextOf(last.summary))
            c == Trim(TextOf(last.full_content))
        IN  /\ IsUnknown(s) => last.ret = SectionsOf(t, <<>>, c)
            /\ last.ret = <<>> <=>
                  (t = <<>> /\ (s = <<>> \/ IsUnknown(s)) /\ c = <<>>)
            /\ (/\ last.title = Some(<<>>)
                /\ last.summary = Some(<<"U", "n", "k", "n", "o", "w", "n">>)
                /\ last.full_content = Some(<<>>)) => last.ret = <<>>
            /\ (/\ last.title = Some(<<"T">>)
                /\ last.summary = Some(<<"u", "n", "k", "n", "o", "w", "n">>)
                /\ last.full_content = Some(<<>>)) =>
                  last.ret = <<"T", "i", "t", "l", "e", ":", " ", "T">>

\* build("T", "Unknown", "") was called and returned "Title: T"
C15_Witness ==
    /\ Built
    /\ last.title = Some(<<"T">>)
    /\ last.summary = Some(<<"U", "n", "k", "n", "o", "w", "n">>)
    /\ last.full_content = Some(<<>>)
    /\ last.ret = <<"T", "i", "t", "l", "e", ":", " ", "T">>

----------------------------------------------------------------------------
(* SpecIngest: one run of cmd_ingest over the results of a scrape, on an    *)
(* empty store or on the store an earlier run left.  A step is one          *)
(* iteration of one of its loops; an exception no loop catches ends the run. *)

\* Python truthiness of an optional flag: None (absent) and False are falsy
FalsyBool(v) == v = NULL \/ v[1] = FALSE

\* d[k] = v on a dict
Put(d, k, v) == [x \in DOMAIN d \cup {k} |-> IF x = k THEN v ELSE d[x]]

\* d.get(k)
Get(d, k) == IF k \in DOMAIN d THEN d[k] ELSE NULL

\* d.get(k, default), for a value read from an optional field
GetOr(v, default) == IF v = NULL THEN default ELSE v

\* the loops of cmd_ingest, in order
Phases == <<"hackernews", "arxiv", "rss", "crawled_content">>

\* the next item cmd_ingest works on, from item i of loop k on: loops with
\* nothing left are passed over, and after the last loop comes the indexing
RECURSIVE Position(_, _, _)
Position(results, k, i) ==
    IF k > Len(Phases)
    THEN [pc |-> "index", i |-> 1]
    ELSE IF i <= Len(results[Phases[k]])
    THEN [pc |-> Phases[k], i |-> i]
    ELSE Position(results, k + 1, 1)

\* cmd_ingest about to work on the item at pos
Running(pos, results, article_id_map) ==
    [pc |-> pos.pc, i |-> pos.i, results |-> results,
     article_id_map |-> article_id_map, batch |-> <<>>]

\* the number of the loop named pc
PhaseNo(pc) == CHOOSE k \in 1..Len(Phases) : Phases[k] = pc

\* cli.py args.topic
IngestTopic == Some("ai")

\* cli.py lines 51 and 58: the record itself is upserted
IngestRecord(article) == article

\* cli.py lines 54-55: article['url'] = article.get('arxiv_url') or article.get('url')
IngestArxivRecordAsIs(article) == article

IngestArxivRecord(article) ==
    [article EXCEPT !.url = PyOrStr(article.arxiv_url, article.url)]

\* cli.py lines 63-66: the article a crawl result is attached to, None for a result
\* that is skipped
AttachTargetAnyResult(content, article_id_map) ==
    Get(article_id_map, Some(content.url))

AttachTarget(content, article_id_map) ==
    IF FalsyBool(content.success)
    THEN NULL
    ELSE Get(article_id_map, Some(content.url))

\* Hacker News stories: url and hn_url are both non-empty
IngestHN == {HNRecord(Some("u1"), Some("h1")), HNRecord(Some("u2"), Some("h2"))}

\* arXiv papers: arxiv_url is non-empty, there is no url
IngestArxiv == {ArxivRecord(Some("a1"))}

\* feed entries: url is the entry's link, which a feed may leave empty
IngestRSS ==
    {RSSRecord(Some("u1")), RSSRecord(Some("u2")), RSSRecord(Some(""))}

\* sequences over S of length at most n
SeqUpTo(S, n) == UNION {[1..k -> S] : k \in 0..n}

\* what the crawler may report for a URL: a failure, a result with no
\* success flag, a success
CrawlOutcomes(url) ==
    {[url |-> url, success |-> Some(FALSE), markdown_content |-> NULL,
      word_count |-> NULL, crawled_at |-> NULL],
     [url |-> url, success |-> NULL, markdown_content |-> Some(TxtBody),
      word_count |-> Some(4), crawled_at |-> Some(1)],
     [url |-> url, success |-> Some(TRUE), markdown_content |-> Some(TxtHello),
      word_count |-> Some(5), crawled_at |-> NULL]}

\* results['crawled_content']: a dict keyed by URL, here in the order u1, u2
CrawlResults ==
    {<<>>}
    \cup {<<c>> : c \in CrawlOutcomes("u1") \cup CrawlOutcomes("u2")}
    \cup {<<c1, c2>> : c1 \in CrawlOutcomes("u1"), c2 \in CrawlOutcomes("u2")}

\* the results of a scrape
IngestResults ==
    [hackernews : SeqUpTo(IngestHN, MaxList),
     arxiv : SeqUpTo(IngestArxiv, MaxList),
     rss : SeqUpTo(IngestRSS, MaxList),
     crawled_content : CrawlResults]

\* the store an earlier run left: u1 with crawled content
PriorDb ==
    UpsertCrawledContent(
        UpsertArticle(EmptyDb, HNRecord(Some("u1"), Some("h1")), IngestTopic,
                      1, "none").db,
        Some(1), Some("u1"), Some(TxtBody), Some(4), Some(1), 1, "none").db

\* the same store after upsert_article has also stored u3 with a blank title
\* and the description "Unknown"
PriorBlankDb ==
    UpsertArticle(PriorDb,
        With(BlankArticle,
             [url |-> Some("u3"), title |-> Some(<<" ">>),
              description |-> Some(<<"U", "n", "k", "n", "o", "w", "n">>)]),
        IngestTopic, 1, "none").db

InitIngest ==
    /\ db \in {EmptyDb, PriorDb, PriorBlankDb}
    /\ clock = 1
    /\ last = NoCall
    /\ keys = {}
    /\ procs = IdleProcs
    /\ lock = 0
    /\ work = EmptyDb
    /\ base = EmptyDb
    /\ ing = IdleIngest
    /\ index = {}
    /\ hist = NoHistory

\* cli.py lines 44-49: the scrape returns and the url -> id table is empty
IngestStart ==
    /\ ing.pc = "idle"
    /\ \E results \in IngestResults :
          ing' = Running(Position(results, 1, 1), results, EmptyMap)
    /\ UNCHANGED <<db, clock, last, keys, procs, lock, work, base, index, hist>>

\* cli.py lines 50-58: one iteration of a loop over a source list.  upsert_article
\* runs first; if it raises, nothing catches it.
IngestUpsert ==
    /\ ing.pc \in {"hackernews", "arxiv", "rss"}
    /\ LET article == IF ing.pc = "arxiv"
                      THEN IngestArxivRecord(ing.results[ing.pc][ing.i])
                      ELSE IngestRecord(ing.results[ing.pc][ing.i])
           out == UpsertArticle(db, article, IngestTopic, clock, "none")
           results == [ing.results EXCEPT ![ing.pc][ing.i] = article]
       IN  /\ db' = out.db
           /\ last' = [op |-> "upsert_article", n |-> 1 - last.n,
                       article |-> article, topic |-> IngestTopic,
                       fault |-> "none", ret |-> out.ret, err |-> out.err]
           /\ IF out.err # "ok"
              THEN ing' = [ing EXCEPT !.pc = "aborted", !.results = results]
              ELSE ing' = Running(Position(results, PhaseNo(ing.pc), ing.i + 1),
                                  results,
                                  Put(ing.article_id_map, article.url, out.ret))
    /\ UNCHANGED <<clock, keys, procs, lock, work, base, index, hist>>

\* cli.py lines 61-69: one iteration of the loop over the crawl results
IngestAttach ==
    /\ ing.pc = "crawled_content"
    /\ LET content == ing.results.crawled_content[ing.i]
           article_id == AttachTarget(content, ing.article_id_map)
           next == Running(Position(ing.results, PhaseNo(ing.pc), ing.i + 1),
                           ing.results, ing.article_id_map)
           markdown == GetOr(content.markdown_content, Some(<<>>))
           word_count == GetOr(content.word_count, Some(0))
           out == UpsertCrawledContent(db, article_id, Some(content.url),
                     markdown, word_count, content.crawled_at, clock, "none")
       IN  IF FalsyNum(article_id)
           THEN /\ db' = db
                /\ last' = last
                /\ ing' = next
           ELSE /\ db' = out.db
                /\ last' = [op |-> "upsert_crawled_content", n |-> 1 - last.n,
                            article_id |-> article_id, url |-> Some(content.url),
                            markdown |-> markdown, word_count |-> word_count,
                            crawled_at |-> content.crawled_at,
                            fault |-> "none", err |-> out.err]
                /\ ing' = IF out.err # "ok"
                          THEN [ing EXCEPT !.pc = "aborted"]
                          ELSE next
    /\ UNCHANGED <<clock, keys, procs, lock, work, base, index, hist>>

\* SELECT ... FROM articles a JOIN crawled_content cc ON cc.article_id = a.id
JoinedRowsInner(d) ==
    {[url |-> a.url, title |-> a.title, source |-> a.source,
      description |-> a.description, abstract |-> a.abstract,
      markdown_content |-> Coalesce(c.markdown_content, Some(<<>>)),
      published_date |-> a.published_date]
        : <<a, c>> \in {<<x, y>> \in d.articles \X d.crawled_content :
                          y.article_id = Some(x.id)}}

\* the rows of SELECT ... FROM articles a LEFT JOIN crawled_content cc ON
\* cc.article_id = a.id: a row for every article and content row of it, and
\* a row with the content columns NULL for an article without content;
\* markdown_content is COALESCE(cc.markdown_content, '')
JoinedRows(d) ==
    {[url |-> a.url, title |-> a.title, source |-> a.source,
      description |-> a.description, abstract |-> a.abstract,
      markdown_content |-> Coalesce(c.markdown_content, Some(<<>>)),
      published_date |-> a.published_date]
        : <<a, c>> \in {<<x, y>> \in d.articles \X d.crawled_content :
                          y.article_id = Some(x.id)}}
    \cup
    {[url |-> a.url, title |-> a.title, source |-> a.source,
      description |-> a.description, abstract |-> a.abstract,
      markdown_content |-> Some(<<>>),
      published_date |-> a.published_date]
        : a \in {x \in d.articles : ContentOf(d, Some(x.id)) = {}}}

\* the rank of a published_date under ORDER BY: NULL sorts below every value
DateRank(v) == IF v = NULL THEN 0 ELSE v[1] + 1

\* the orders ORDER BY a.published_date DESC may give the rows in; SQL leaves
\* the order of rows with equal published_date open
RECURSIVE OrderedDesc(_)
OrderedDesc(rows) ==
    IF rows = {}
    THEN {<<>>}
    ELSE UNION {{<<r>> \o rest : rest \in OrderedDesc(rows \ {r})}
                : r \in {x \in rows : \A y \in rows :
                            DateRank(x.published_date) >= DateRank(y.published_date)}}

\* what fetch_articles_for_embedding may return on database d
FetchArticlesForEmbedding(d) == OrderedDesc(JoinedRows(d))

\* cli.py lines 80-84: the document of a row
RowDocument(row) ==
    BuildDocumentForEmbedding(
        PyOrTxt(row.title, Some(<<>>)),
        PyOrTxt(PyOrTxt(row.description, row.abstract), Some(<<>>)),
        PyOrTxt(row.markdown_content, Some(<<>>)))

\* cli.py lines 85-86: is the row indexed (`if not doc_text.strip(): continue`)
RowIndexedAlways(row) == TRUE

RowIndexed(row) == Strip(RowDocument(row)) # <<>>

\* cli.py line 93: the id appended for a row
RowIdSource(row) == row.source

RowId(row) == row.url

\* cli.py lines 88-92: the metadata appended for a row
RowMetadata(row) ==
    [url |-> row.url,
     title |-> PyOrTxt(row.title, Some(<<>>)),
     source |-> PyOrStr(row.source, Some(""))]

\* cli.py lines 74-93: ids_to_index, docs_to_index and metas_to_index after
\* the loop over rows
RECURSIVE IndexLists(_)
IndexLists(rows) ==
    IF rows = <<>>
    THEN [ids |-> <<>>, documents |-> <<>>, metadatas |-> <<>>]
    ELSE LET row == Head(rows)
             rest == IndexLists(Tail(rows))
         IN  IF RowIndexed(row)
             THEN [ids |-> <<RowId(row)>> \o rest.ids,
                   documents |-> <<RowDocument(row)>> \o rest.documents,
                   metadatas |-> <<RowMetadata(row)>> \o rest.metadatas]
             ELSE rest

\* the records collection.add reads from its argument lists: the k-th id
\* with the k-th document and the k-th metadata
Records(ids, documents, metadatas) ==
    [k \in DOMAIN ids |->
        [id |-> ids[k], document |-> documents[k], metadata |-> metadatas[k]]]

\* collection.add(ids, documents, metadatas, embeddings) with the records
\* whose id the collection already holds left out: the others are added.
\* The embedding of an entry is the encoding of its document.
RECURSIVE AddNew(_, _)
AddNew(idx, batch) ==
    IF batch = <<>>
    THEN idx
    ELSE IF \E e \in idx : e.id = Head(batch).id
    THEN AddNew(idx, Tail(batch))
    ELSE AddNew(idx \cup {Head(batch)}, Tail(batch))

\* collection.add on the entries idx of the collection.  add is not upsert:
\* it never replaces an entry.  When the collection already holds an id of
\* the batch, Chroma either ignores the records with such ids or rejects the
\* whole call with a duplicate-id error, depending on its version.
CollectionAdd(idx, batch) ==
    IF \E i \in DOMAIN batch : \E e \in idx : e.id = batch[i].id
    THEN {[index |-> AddNew(idx, batch), err |-> "ok"],
          [index |-> idx, err |-> "DuplicateIDError"]}
    ELSE {[index |-> AddNew(idx, batch), err |-> "ok"]}

\* vector_store.py lines 22-24: add_documents calls self.model.encode once,
\* on the whole list of documents (encoded: the arguments of its calls), and
\* adds the batch
AddDocuments(idx, ids, documents, metadatas) ==
    {[index |-> out.index, err |-> out.err, encoded |-> <<documents>>]
        : out \in CollectionAdd(idx, Records(ids, documents, metadatas))}

\* cli.py lines 72-99: the indexing step; an error of add_documents ends the
\* run
IngestIndex ==
    /\ ing.pc = "index"
    /\ \E rows \in FetchArticlesForEmbedding(db) :
          LET lists == IndexLists(rows)
              batch == Records(lists.ids, lists.documents, lists.metadatas)
          IN
          IF lists.documents # <<>>
          THEN \E out \in AddDocuments(index, lists.ids, lists.documents,
                                       lists.metadatas) :
                  /\ index' = out.index
                  /\ last' = [op |-> "add_documents", n |-> 1 - last.n,
                              ids |-> lists.ids,
                              documents |-> lists.documents,
                              metadatas |-> lists.metadatas,
                              encoded |-> out.encoded,
                              batch |-> batch, err |-> out.err]
                  /\ ing' = [ing EXCEPT
                               !.pc = IF out.err = "ok" THEN "done" ELSE "aborted",
                               !.batch = batch]
          ELSE /\ index' = index
               /\ last' = last
               /\ ing' = [ing EXCEPT !.pc = "done", !.batch = batch]
    /\ UNCHANGED <<db, clock, keys, procs, lock, work, base, hist>>

NextIngest == IngestStart \/ IngestUpsert \/ IngestAttach \/ IngestIndex

SpecIngest == InitIngest /\ [][NextIngest]_vars

----------------------------------------------------------------------------
(* SpecReindex: ingest runs one after another on the same store and the     *)
(* same vector index, from an empty store and an empty index.               *)

\* the results of the scrapes of SpecReindex
ReindexResults ==
    [hackernews : {<<>>, <<HNRecord(Some("u1"), Some("h1"))>>},
     arxiv : {<<>>},
     rss : {<<>>, <<RSSRecord(Some("u1"))>>, <<RSSRecord(Some("u2"))>>},
     crawled_content :
        {<<>>} \cup {<<c>> : c \in {x \in CrawlOutcomes("u1") : x.success # NULL}}]

\* cli.py lines 35-49: cmd_ingest is run, for the first time or again
ReindexStart ==
    /\ ing.pc \in {"idle", "done", "aborted"}
    /\ \E results \in ReindexResults :
          ing' = Running(Position(results, 1, 1), results, EmptyMap)
    /\ UNCHANGED <<db, clock, last, keys, procs, lock, work, base, index, hist>>

NextReindex == ReindexStart \/ IngestUpsert \/ IngestAttach \/ IngestIndex

SpecReindex == Init /\ [][NextReindex]_vars

\* the records of the three source lists, as cmd_ingest hands them to
\* upsert_article
BatchRecords(results) ==
    {IngestRecord(results.hackernews[i]) : i \in DOMAIN results.hackernews}
    \cup {IngestArxivRecord(results.arxiv[i]) : i \in DOMAIN results.arxiv}
    \cup {IngestRecord(results.rss[i]) : i \in DOMAIN results.rss}

\* the records of the batch that carry an identifying URL
GoodRecords(results) == {r \in BatchRecords(results) : ~NoIdentifier(r)}

\* the successful crawl results of the batch that belong to one of its records
\* carrying an identifying URL
GoodCrawls(results) ==
    {c \in {results.crawled_content[i] : i \in DOMAIN results.crawled_content} :
        /\ ~FalsyBool(c.success)
        /\ \E r \in GoodRecords(results) : r.url = Some(c.url)}

\* the run of cmd_ingest has ended, by returning or by an exception
RunOver == ing.pc \in {"done", "aborted"}

\* C5: however a run of cmd_ingest ends, and so also when one record of the
\* batch carries no identifier, every record of the three source lists that
\* carries one is stored, every successful crawl result of such a record is
\* attached, and the indexing step has run.
C5_BatchNeverAborts ==
    RunOver =>
        /\ \A r \in GoodRecords(ing.results) : RowsOf(db, CanonicalUrl(r)) # {}
        /\ \A c \in GoodCrawls(ing.results) :
              \E row \in db.crawled_content :
                  /\ row.url = Some(c.url)
                  /\ row.markdown_content = c.markdown_content
        /\ ing.pc = "done"

\* this step is an iteration of the loop over the crawl results
AttachStep == ing.pc = "crawled_content" /\ ing' # ing

\* the crawled_content rows not owned by article_id
ContentOfOthers(d, article_id) ==
    {c \in d.crawled_content : c.article_id # article_id}

\* C10: in the loop over the crawl results, a result whose success flag is
\* false or missing calls nothing and leaves every crawled_content row as it
\* was; a successful result whose URL is in the url -> id table is passed to
\* upsert_crawled_content with the id the table holds for it, and no row of
\* another article changes; a successful result whose URL is not in the table
\* calls nothing and leaves the store as it was.
C10_AttachOnlySuccessfulMapped ==
    [][AttachStep =>
        LET content == ing.results.crawled_content[ing.i]
            key == Some(content.url)
            table == ing.article_id_map
        IN  /\ FalsyBool(content.success) =>
                  /\ ~Called
                  /\ db'.crawled_content = db.crawled_content
            /\ (~FalsyBool(content.success) /\ key \in DOMAIN table) =>
                  /\ Called
                  /\ last'.op = "upsert_crawled_content"
                  /\ last'.article_id = table[key]
                  /\ last'.url = key
                  /\ last'.markdown = content.markdown_content
                  /\ ContentOfOthers(db', table[key])
                        = ContentOfOthers(db, table[key])
            /\ (~FalsyBool(content.success) /\ key \notin DOMAIN table) =>
                  /\ ~Called
                  /\ db' = db
    ]_vars

\* a run has ended in which a result without success flag, for a URL of the
\* table, left its article without content, and a successful result for
\* another URL of the table was attached to its article
C10_Witness ==
    /\ ing.pc = "done"
    /\ \E i, j \in DOMAIN ing.results.crawled_content :
          LET skipped == ing.results.crawled_content[i]
              attached == ing.results.crawled_content[j]
              table == ing.article_id_map
          IN  /\ FalsyBool(skipped.success)
              /\ Some(skipped.url) \in DOMAIN table
              /\ ContentOf(db, table[Some(skipped.url)]) = {}
              /\ ~FalsyBool(attached.success)
              /\ Some(attached.url) \in DOMAIN table
              /\ \E row \in ContentOf(db, table[Some(attached.url)]) :
                    row.markdown_content = attached.markdown_content

----------------------------------------------------------------------------
(* aggregate_signals (db.py lines 193-225).  One tick of the clock is one   *)
(* day, so the cutoff of a call with days = n at time now is now - n.       *)

\* `if topic:` appends "topic = ?": no filter for None and '', else SQL
\* equality, which no row with a NULL topic satisfies
WhereTopic(row, topic) ==
    FalsyStr(topic) \/ (row.topic # NULL /\ row.topic = topic)

\* t >= iso_cutoff on ISO strings; a NULL t satisfies no comparison
CutoffTestStrict(t, cutoff) == t # NULL /\ t[1] > cutoff

CutoffTest(t, cutoff) == t # NULL /\ t[1] >= cutoff

\* `if days is not None:` appends "COALESCE(published_date, created_at) >= ?"
WhereDays(row, days, now) ==
    IF days = NULL
    THEN TRUE
    ELSE CutoffTest(Coalesce(row.published_date, row.created_at),
                    now - days[1])

\* SELECT ... FROM articles {where_sql}
SelectWhere(d, topic, days, now) ==
    {r \in d.articles : WhereTopic(r, topic) /\ WhereDays(r, days, now)}

\* SUM(column) over rows, NULLs skipped, and `row[i] or 0` for the NULL that
\* SUM gives when no row has a value
RECURSIVE SumColumn(_, _)
SumColumn(rows, column) ==
    IF rows = {}
    THEN 0
    ELSE LET r == CHOOSE x \in rows : TRUE
             v == IF r[column] = NULL THEN 0 ELSE r[column][1]
         IN  v + SumColumn(rows \ {r}, column)

\* the dict aggregate_signals returns
AggregateSignals(d, topic, days, now) ==
    LET rows == SelectWhere(d, topic, days, now) IN
    [articles |-> Cardinality(rows),
     hn_points |-> SumColumn(rows, "points"),
     hn_comments |-> SumColumn(rows, "comments_count"),
     crawled_count |-> Cardinality(d.crawled_content)]

\* a call of aggregate_signals(topic, days); the cutoff stays a date
CallAggregateSignals(topic, days) ==
    /\ IF days = NULL THEN TRUE ELSE days[1] < clock
    /\ last' = [op |-> "aggregate_signals", n |-> 1 - last.n,
                topic |-> topic, days |-> days,
                ret |-> AggregateSignals(db, topic, days, clock),
                err |-> "ok"]
    /\ UNCHANGED <<db, clock, keys, procs, lock, work, base, ing, index, hist>>

\* a record with neither published_date nor created_at
UndatedRecord(url) ==
    With(BlankArticle,
         [url |-> url, title |-> Some(TxtStory), points |-> Some(5),
          source |-> Some("rss")])

\* the upserts of SpecAgg: a record and the topic it is ingested under
AggUpserts ==
    {<<HNRecord(Some("u1"), Some("h1")), Some("ai")>>,
     <<RSSRecord(Some("u2")), Some("ml")>>,
     <<UndatedRecord(Some("u3")), Some("ai")>>,
     <<ArxivRecord(Some("a1")), NULL>>}

\* the topics and day counts asked for
AggTopics == {NULL, Some(""), Some("ai"), Some("zz")}

AggDays == {NULL} \cup {Some(n) : n \in 0..MaxClock - 1}

\* SpecAgg: upserts, attachments and aggregate queries on one day, which may
\* be any day
InitAgg ==
    /\ db = EmptyDb
    /\ clock \in 1..MaxClock
    /\ last = NoCall
    /\ keys = {}
    /\ procs = IdleProcs
    /\ lock = 0
    /\ work = EmptyDb
    /\ base = EmptyDb
    /\ ing = IdleIngest
    /\ index = {}
    /\ hist = NoHistory

AggUpsertArticle ==
    \E u \in AggUpserts : CallUpsertArticle(u[1], u[2], "none")

AggAttach ==
    \E article_id \in {Some(1), Some(2)} :
        /\ \E r \in db.articles : Some(r.id) = article_id
        /\ CallUpsertCrawledContent(article_id, Some("u1"), Some(TxtBody),
                                    Some(4), Some(1), "none")

AggQuery ==
    \E topic \in AggTopics, days \in AggDays : CallAggregateSignals(topic, days)

NextAgg == AggUpsertArticle \/ AggAttach \/ AggQuery

SpecAgg == InitAgg /\ [][NextAgg]_vars

\* the last call was aggregate_signals; the store is as the call saw it
Aggregated == last.op = "aggregate_signals"

\* the effective time of an article: published_date if present, else created_at
EffectiveTime(r) ==
    IF r.published_date # NULL THEN r.published_date ELSE r.created_at

\* the article satisfies the filters of the call: the topic, when one is
\* given, and the inclusive lower bound now - days, when days is given
Matches(r, call, now) ==
    /\ ~FalsyStr(call.topic) => r.topic = call.topic
    /\ call.days # NULL =>
          /\ EffectiveTime(r) # NULL
          /\ EffectiveTime(r)[1] >= now - call.days[1]

\* the stored articles that satisfy the filters of the last call
Matching == {r \in db.articles : Matches(r, last, clock)}

\* C11: aggregate_signals does not raise and returns zero for the article
\* count, the points sum, the comments sum and the content count whenever no
\* stored article satisfies the topic and days filters, on an empty store and
\* on a store whose articles, with or without content, all fail the filter.
C11_NoMatchAllZero ==
    (Aggregated /\ Matching = {}) =>
        /\ last.err = "ok"
        /\ last.ret = [articles |-> 0, hn_points |-> 0, hn_comments |-> 0,
                       crawled_count |-> 0]

\* C12: the content count aggregate_signals returns is the number of stored
\* articles that satisfy the topic and days filters and own a crawled_content
\* row.
C12_ContentCountFiltered ==
    Aggregated =>
        last.ret.crawled_count =
            Cardinality({r \in Matching : ContentOf(db, Some(r.id)) # {}})

SummaryOf(r) ==
    IF TextOf(r.description) # <<>> THEN TextOf(r.description)
    ELSE TextOf(r.abstract)

AttachedText(d, r) ==
    IF ContentOf(d, Some(r.id)) = {}
    THEN <<>>
    ELSE TextOf((CHOOSE c \in ContentOf(d, Some(r.id)) : TRUE).markdown_content)

\* the embedding document of stored article r
DocumentOf(d, r) ==
    LET s == Trim(SummaryOf(r)) IN
    SectionsOf(Trim(TextOf(r.title)), IF IsUnknown(s) THEN <<>> ELSE s,
               Trim(AttachedText(d, r)))

\* the ids of the batch handed to the index in this run
BatchIds == {ing.batch[i].id : i \in DOMAIN ing.batch}

\* C16: when the indexing step of an ingest run has run, the ids it passed to
\* the index are exactly the canonical URLs of the stored articles whose
\* document, built from title, description or else abstract, and attached
\* content, is non-empty; no document passed is empty, and the index holds no
\* entry with an empty document.
C16_EmptyDocumentNeverIndexed ==
    ing.pc = "done" =>
        /\ BatchIds = {r.url : r \in {x \in db.articles : DocumentOf(db, x) # <<>>}}
        /\ \A i \in DOMAIN ing.batch : ing.batch[i].document # <<>>
        /\ ing.batch # <<>> => (last.op = "add_documents" /\ last.batch = ing.batch)
        /\ \A e \in index : e.document # <<>>

\* a run has indexed a store that holds an article with an empty document
\* along with articles with non-empty ones: the former's URL is not among
\* the ids passed, the latter's are
C16_Witness ==
    /\ ing.pc = "done"
    /\ \E r \in db.articles : DocumentOf(db, r) = <<>> /\ r.url \notin BatchIds
    /\ \E r \in db.articles : DocumentOf(db, r) # <<>> /\ r.url \in BatchIds
    /\ Len(ing.batch) >= 2

\* this step is a call of add_documents
IndexWrite == last'.n # last.n /\ last'.op = "add_documents"

\* the metadata projection of stored article a (null read as the empty string)
MetadataOf(a) ==
    [url |-> a.url,
     title |-> Some(TextOf(a.title)),
     source |-> IF a.source = NULL THEN Some("") ELSE a.source]

\* C24: the indexing step of an ingest run issues at most one index write,
\* on leaving the step, and none when no stored article has a document; the
\* write encodes all documents in one call; its id, document and metadata
\* lists have equal length and are aligned: at each position the id is the
\* canonical URL of a stored article, the document is the one built from
\* that article, and the metadata is that article's {url, title, source}
\* with url equal to the id; no id occurs twice.
C24_OneAlignedIndexWrite ==
    [][/\ IndexWrite =>
            /\ ing.pc = "index"
            /\ ing'.pc \in {"done", "aborted"}
            /\ last'.documents # <<>>
            /\ last'.encoded = <<last'.documents>>
            /\ Len(last'.ids) = Len(last'.documents)
            /\ Len(last'.ids) = Len(last'.metadatas)
            /\ \A k \in DOMAIN last'.ids :
                  \E a \in db.articles :
                      /\ last'.ids[k] = a.url
                      /\ last'.documents[k] = DocumentOf(db, a)
                      /\ last'.metadatas[k] = MetadataOf(a)
                      /\ last'.metadatas[k].url = last'.ids[k]
            /\ \A k, l \in DOMAIN last'.ids :
                  last'.ids[k] = last'.ids[l] => k = l
       /\ index' # index => IndexWrite
       /\ (ing.pc = "index" /\ ing'.pc # "index" /\ ~IndexWrite) =>
             \A a \in db.articles : DocumentOf(db, a) = <<>>
      ]_vars

\* C24 happens: a run has written three documents to the index in one call,
\* one of them built from attached content, for a store that also holds an
\* article without document
C24_Witness ==
    /\ ing.pc = "done"
    /\ last.op = "add_documents"
    /\ last.err = "ok"
    /\ Len(last.ids) = 3
    /\ last.encoded = <<last.documents>>
    /\ \E r \in db.articles : DocumentOf(db, r) = <<>>
    /\ \E r \in db.articles :
          AttachedText(db, r) # <<>> /\ r.url \in {last.ids[k] : k \in DOMAIN last.ids}

\* C17: after any sequence of ingest runs the vector index holds at most one
\* entry per canonical URL, and when a run has completed, the entry of every
\* URL it submitted holds the document it submitted for it, so that an
\* already indexed URL with a new document has the new document.
C17_ReindexReplaces ==
    /\ \A e1, e2 \in index : e1.id = e2.id => e1 = e2
    /\ ing.pc = "done" =>
          \A i \in DOMAIN ing.batch :
              \E e \in index :
                  e.id = ing.batch[i].id /\ e.document = ing.batch[i].document

----------------------------------------------------------------------------
(* MarketValidator._compute_score (validator.py lines 16-29).  Scores are   *)
(* kept in tenths: the weights 1.0, 0.5, 0.2 and 0.1 are 10, 5, 2 and 1.    *)

\* the weights of articles, hn_points, hn_comments and crawled_count, of an
\* item's score and of an item's comments, in tenths
WeightArticles == 10

WeightPoints == 5

WeightComments == 2

WeightCrawled == 1

WeightItemScore == 10

WeightItemComments == 5

\* d.get(key, 0) on a dict of optional numbers
GetNum(d, key) == IF d[key] = NULL THEN 0 ELSE d[key][1]

\* item.get('score', 0) + item.get('comments', 0) * 0.5
ItemScoreCommentsWhole(item) ==
    GetNum(item, "score") * WeightItemScore
    + GetNum(item, "comments") * WeightItemScore

ItemScore(item) ==
    GetNum(item, "score") * WeightItemScore
    + GetNum(item, "comments") * WeightItemComments

\* sum(... for item in social_items)
RECURSIVE SocialScore(_)
SocialScore(social_items) ==
    IF social_items = <<>>
    THEN 0
    ELSE ItemScore(Head(social_items)) + SocialScore(Tail(social_items))

\* the dict _compute_score returns
ComputeScore(db_metrics, social_items) ==
    LET social_score == SocialScore(social_items)
        base_score == GetNum(db_metrics, "articles") * WeightArticles
                      + GetNum(db_metrics, "hn_points") * WeightPoints
                      + GetNum(db_metrics, "hn_comments") * WeightComments
                      + GetNum(db_metrics, "crawled_count") * WeightCrawled
    IN  [base_score |-> base_score, social_score |-> social_score,
         total_score |-> base_score + social_score]

\* a call of _compute_score(db_metrics, social_items); the call reads its
\* arguments with .get and assigns to neither
CallComputeScore(db_metrics, social_items) ==
    /\ last' = [op |-> "_compute_score", n |-> 1 - last.n,
                db_metrics |-> db_metrics, social_items |-> social_items,
                db_metrics_after |-> db_metrics,
                social_items_after |-> social_items,
                ret |-> ComputeScore(db_metrics, social_items)]
    /\ UNCHANGED <<db, clock, keys, procs, lock, work, base, ing, index, hist>>

\* the metrics and the social items of SpecScore; NULL is a missing key
ScoreMetrics ==
    [articles : {NULL, Some(0), Some(2)}, hn_points : {NULL, Some(10)},
     hn_comments : {NULL, Some(3)}, crawled_count : {NULL, Some(1)}]

ScoreItems ==
    {[score |-> Some(5), comments |-> Some(2)],
     [score |-> NULL, comments |-> Some(1)],
     [score |-> Some(3), comments |-> NULL]}

\* SpecScore: calls of _compute_score
Score ==
    \E db_metrics \in ScoreMetrics, social_items \in SeqUpTo(ScoreItems, MaxItems) :
        CallComputeScore(db_metrics, social_items)

NextScore == Score

SpecScore == Init /\ [][NextScore]_vars

\* the last call was _compute_score
Scored == last.op = "_compute_score"

\* the value of an optional number, a missing one counting as 0
NumOf(v) == IF v = NULL THEN 0 ELSE v[1]

\* the sum over the items of 10 * score + 5 * comments
RECURSIVE SumOfItems(_)
SumOfItems(items) ==
    IF items = <<>>
    THEN 0
    ELSE 10 * NumOf(items[1].score) + 5 * NumOf(items[1].comments)
         + SumOfItems(Tail(items))

\* C19: in tenths, _compute_score returns base = 10 articles + 5 hn_points +
\* 2 hn_comments + 1 crawled_count, social = the sum over the social items of
\* 10 score + 5 comments, and total = base + social, a missing key counting
\* as 0, so that the result is determined by the inputs alone; the metrics
\* and the items are as they were before the call; and the single item
\* {score 5, comments 2} gives social = 6.0.
C19_ScoreFormula ==
    /\ Scored =>
          /\ last.ret.base_score =
                10 * NumOf(last.db_metrics.articles)
                + 5 * NumOf(last.db_metrics.hn_points)
                + 2 * NumOf(last.db_metrics.hn_comments)
                + NumOf(last.db_metrics.crawled_count)
          /\ last.ret.social_score = SumOfItems(last.social_items)
          /\ last.ret.total_score = last.ret.base_score + last.ret.social_score
          /\ last.db_metrics_after = last.db_metrics
          /\ last.social_items_after = last.social_items
          /\ last.social_items = <<[score |-> Some(5), comments |-> Some(2)]>> =>
                last.ret.social_score = 60

\* _compute_score was called on {articles 2, hn_points 10, hn_comments 3}
\* without crawled_count and the single item {score 5, comments 2}, and
\* returned base 7.6, social 6.0, total 13.6
C19_Witness ==
    /\ Scored
    /\ last.db_metrics = [articles |-> Some(2), hn_points |-> Some(10),
                          hn_comments |-> Some(3), crawled_count |-> NULL]
    /\ last.social_items = <<[score |-> Some(5), comments |-> Some(2)]>>
    /\ last.ret = [base_score |-> 76, social_score |-> 60, total_score |-> 136]

----------------------------------------------------------------------------
(* SpecCanon: one run of cmd_ingest over records that carry their           *)
(* identifying URLs in every combination the canonical URL depends on.      *)

\* a story whose url is empty, a preprint that also carries a url (and a
\* title), a preprint whose only identifier is its url
CanonHN == {HNRecord(Some("u1"), Some("h1")), HNRecord(Some(""), Some("h1"))}

CanonArxiv ==
    {ArxivRecord(Some("a1")),
     With(ArxivRecord(Some("a1")), [url |-> Some("u1"), title |-> Some(TxtStory)]),
     With(ArxivRecord(Some("")), [url |-> Some("u2")])}

CanonRSS == {RSSRecord(Some("u1")), RSSRecord(Some("u2"))}

CanonResults ==
    [hackernews : SeqUpTo(CanonHN, MaxList),
     arxiv : SeqUpTo(CanonArxiv, MaxList),
     rss : SeqUpTo(CanonRSS, MaxList),
     crawled_content : {<<>>}]

\* cli.py lines 44-49: the scrape returns, without crawled content
CanonStart ==
    /\ ing.pc = "idle"
    /\ \E results \in CanonResults :
          ing' = Running(Position(results, 1, 1), results, EmptyMap)
    /\ UNCHANGED <<db, clock, last, keys, procs, lock, work, base, index, hist>>

NextCanon == CanonStart \/ IngestUpsert \/ IngestIndex

SpecCanon == Init /\ [][NextCanon]_vars

\* this step is an iteration of a loop over a source list in which
\* upsert_article returned an id
UpsertStep ==
    /\ ing.pc \in {"hackernews", "arxiv", "rss"}
    /\ Called
    /\ last'.ret # NULL

\* the first non-empty of three optional URLs
FirstNonEmpty(a, b, c) ==
    IF a # NULL /\ a # Some("") THEN a
    ELSE IF b # NULL /\ b # Some("") THEN b
    ELSE c

\* the row upsert_article returned the id of is stored under url
StoredUnder(url) ==
    \E row \in db'.articles : Some(row.id) = last'.ret /\ row.url = url

----------------------------------------------------------------------------
(* SpecFetch: the four operations of the store, one call at a time, on      *)
(* articles that share a publication time, differ in it, or have none.      *)

\* a call of fetch_articles_for_embedding()
CallFetchArticlesForEmbedding ==
    \E rows \in FetchArticlesForEmbedding(db) :
        /\ last' = [op |-> "fetch_articles_for_embedding", n |-> 1 - last.n,
                    rows |-> rows, err |-> "ok"]
        /\ UNCHANGED <<db, clock, keys, procs, lock, work, base, ing, index, hist>>

\* two feed items of one publication time, a preprint of an earlier one, two
\* stories without publication time
FetchRecords ==
    {RSSRecord(Some("u1")), RSSRecord(Some("u2")), ArxivRecord(Some("a1")),
     HNRecord(Some("u3"), Some("h3")), HNRecord(Some("u4"), Some("h4"))}

FetchUpsertArticle ==
    \E article \in FetchRecords : CallUpsertArticle(article, Some("ai"), "none")

\* content attached under the id of the first article, with a text or with
\* none, or under the id of the second, whether stored already or not
FetchAttach ==
    \E call \in {<<Some(1), NULL>>, <<Some(1), Some(TxtBody)>>,
                 <<Some(2), Some(TxtHello)>>} :
        CallUpsertCrawledContent(call[1], Some("u1"), call[2], Some(4),
                                 Some(1), "none")

FetchQuery == CallFetchArticlesForEmbedding

FetchAggregate == CallAggregateSignals(Some("ai"), Some(0))

NextFetch == FetchUpsertArticle \/ FetchAttach \/ FetchQuery \/ FetchAggregate

SpecFetch == Init /\ [][NextFetch]_vars

\* the last call was fetch_articles_for_embedding
Fetched == last.op = "fetch_articles_for_embedding"

\* the stored article a fetched row was read from
ArticleOfRow(row) == CHOOSE a \in db.articles : a.url = row.url

\* C23: the rows fetch_articles_for_embedding returns are in descending
\* order of publication time, and two articles of equal publication time
\* (two without any included) come in the order of their insertion.
C23_TiesInInsertionOrder ==
    Fetched =>
        \A i, j \in DOMAIN last.rows :
            i < j =>
                LET a == ArticleOfRow(last.rows[i])
                    b == ArticleOfRow(last.rows[j])
                IN  \/ DateRank(a.published_date) > DateRank(b.published_date)
                    \/ /\ a.published_date = b.published_date
                       /\ a.id < b.id

\* C25: fetch_articles_for_embedding returns exactly one row for every stored
\* article and no other row, with the article's url, title, source,
\* description and abstract; the row's content text is the text attached to
\* the article when it has a content row (the empty string if that row holds
\* no text) and the empty string when it has none, and is never null.
C25_OneRowPerArticle ==
    Fetched =>
        /\ Len(last.rows) = Cardinality(db.articles)
        /\ \A i \in DOMAIN last.rows : last.rows[i].markdown_content # NULL
        /\ \A a \in db.articles :
              \E i \in DOMAIN last.rows :
                  LET row == last.rows[i] IN
                  /\ \A j \in DOMAIN last.rows :
                        last.rows[j].url = a.url => j = i
                  /\ row.url = a.url
                  /\ row.title = a.title
                  /\ row.source = a.source
                  /\ row.description = a.description
                  /\ row.abstract = a.abstract
                  /\ IF ContentOf(db, Some(a.id)) = {}
                     THEN row.markdown_content = Some(<<>>)
                     ELSE \A c \in ContentOf(db, Some(a.id)) :
                             row.markdown_content = Some(TextOf(c.markdown_content))

\* C25 happens: the store fetched from holds an article with attached text
\* and two articles without content
C25_Witness ==
    /\ Fetched
    /\ Len(last.rows) = 3
    /\ \E a \in db.articles :
          \E c \in ContentOf(db, Some(a.id)) : c.markdown_content = Some(TxtBody)
    /\ Cardinality({a \in db.articles : ContentOf(db, Some(a.id)) = {}}) = 2
    /\ \E i \in DOMAIN last.rows : last.rows[i].markdown_content = Some(TxtBody)

\* C30: a successful upsert_article for URL u changes no article stored under
\* another URL and no crawled_content row; a successful
\* upsert_crawled_content for article id i changes no article and no
\* crawled_content row owned by another id; fetch_articles_for_embedding and
\* aggregate_signals change nothing in the store.
C30_Frame ==
    [][Called =>
        /\ (last'.op = "upsert_article" /\ last'.err = "ok") =>
              LET url == CanonicalUrl(last'.article) IN
              /\ {r \in db'.articles : r.url # url} =
                    {r \in db.articles : r.url # url}
              /\ db'.crawled_content = db.crawled_content
        /\ (last'.op = "upsert_crawled_content" /\ last'.err = "ok") =>
              /\ db'.articles = db.articles
              /\ {c \in db'.crawled_content : c.article_id # last'.article_id} =
                    {c \in db.crawled_content : c.article_id # last'.article_id}
        /\ last'.op \in {"fetch_articles_for_embedding", "aggregate_signals"} =>
              db' = db
      ]_vars

\* C30 happens: content has been attached under id 2 in a store of three
\* articles where id 1 has content of its own, which is still there
C30_Witness ==
    /\ last.op = "upsert_crawled_content"
    /\ last.err = "ok"
    /\ last.article_id = Some(2)
    /\ Cardinality(db.articles) = 3
    /\ \E c \in ContentOf(db, Some(1)) : c.markdown_content = Some(TxtBody)
    /\ \E c \in ContentOf(db, Some(2)) : c.markdown_content = Some(TxtHello)

----------------------------------------------------------------------------
(* SpecCrawl: cmd_ingest run any number of times, the crawl results of a    *)
(* run being those crawl_content_from_urls produces for the run's records.  *)

\* content_processor.py lines 81 and 91: is the record's url crawled
\* (`article.get('url') and self._is_valid_url(article['url'])`; every
\* non-empty URL of the model is a valid http URL)
CrawledUrlAnyUrl(article) == article.url # NULL

CrawledUrl(article) == ~ FalsyStr(article.url)

\* content_processor.py lines 80-97: all_urls, from the records of a list
RECURSIVE AllUrls(_)
AllUrls(records) ==
    IF records = <<>>
    THEN <<>>
    ELSE IF CrawledUrl(Head(records))
    THEN <<Head(records).url[1]>> \o AllUrls(Tail(records))
    ELSE AllUrls(Tail(records))

\* list(dict.fromkeys(all_urls)): duplicates removed, the first occurrence kept
RECURSIVE UniqueUrls(_)
UniqueUrls(urls) ==
    IF urls = <<>>
    THEN <<>>
    ELSE LET init == UniqueUrls(SubSeq(urls, 1, Len(urls) - 1))
             u == urls[Len(urls)]
         IN  IF \E k \in DOMAIN init : init[k] = u
             THEN init ELSE Append(init, u)

\* content_processor.py lines 122-163: the crawler gives each URL one result,
\* a success with its text or a failure
RECURSIVE CrawledContent(_)
CrawledContent(urls) ==
    IF urls = <<>>
    THEN {<<>>}
    ELSE {<<c>> \o rest :
            c \in {x \in CrawlOutcomes(Head(urls)) : x.success # NULL},
            rest \in CrawledContent(Tail(urls))}

\* a story, and a story whose url is empty, stored under its hn_url
CrawlHN == {HNRecord(Some("u1"), Some("h1")), HNRecord(Some(""), Some("h1"))}

\* a preprint: no url, stored under its arxiv_url
CrawlArxiv == {ArxivRecord(Some("a1"))}

\* a feed item with the URL of the story
CrawlRSS == {RSSRecord(Some("u1"))}

\* base_scraper.py lines 72-81 and cli.py lines 44-47: the results of a
\* scrape, each list with one record or none, with the crawl of their URLs
\* or, without include_content, no crawl
CrawlScrapes ==
    UNION {{[hackernews |-> hn, arxiv |-> ax, rss |-> rs, crawled_content |-> cc]
              : cc \in {<<>>} \cup CrawledContent(UniqueUrls(AllUrls(hn) \o AllUrls(rs)))}
           : hn \in SeqUpTo(CrawlHN, 1), ax \in SeqUpTo(CrawlArxiv, 1),
             rs \in SeqUpTo(CrawlRSS, 1)}

\* cli.py lines 35-49: cmd_ingest is run, for the first time or, at a later
\* time, again
CrawlStart ==
    /\ \/ ing.pc = "idle" /\ clock' = clock
       \/ ing.pc \in {"done", "aborted"} /\ clock < MaxClock /\ clock' = clock + 1
    /\ \E results \in CrawlScrapes :
          ing' = Running(Position(results, 1, 1), results, EmptyMap)
    /\ UNCHANGED <<db, last, keys, procs, lock, work, base, index, hist>>

NextCrawl == CrawlStart \/ IngestUpsert \/ IngestAttach \/ IngestIndex

SpecCrawl == Init /\ [][NextCrawl]_vars

\* C29: after any sequence of ingest runs, every crawled_content row has the
\* url of the article whose id it references, that is the canonical URL the
\* article is stored under; also when a record's url is empty and it is
\* stored under its arxiv_url or hn_url, and when one URL occurs in several
\* source lists of a run.
C29_ContentOnItsArticle ==
    \A c \in db.crawled_content :
        \E r \in db.articles : c.article_id = Some(r.id) /\ c.url = r.url

\* C29 happens: a run has ended whose story had an empty url and was stored
\* under its hn_url, whose preprint was stored under its arxiv_url, and whose
\* crawl of u1 succeeded; u1, which a story and a feed item have both
\* carried, holds the content, and the other two articles hold none
C29_Witness ==
    /\ ing.pc = "done"
    /\ \E c \in DOMAIN ing.results.crawled_content :
          /\ ing.results.crawled_content[c].url = "u1"
          /\ ing.results.crawled_content[c].success = Some(TRUE)
    /\ \E r \in RowsOf(db, Some("h1")) :
          /\ Get(ing.article_id_map, Some("")) = Some(r.id)
          /\ ContentOf(db, Some(r.id)) = {}
    /\ \E r \in RowsOf(db, Some("a1")) : ContentOf(db, Some(r.id)) = {}
    /\ \E r \in RowsOf(db, Some("u1")) :
          /\ r.title # NULL
          /\ r.description # NULL
          /\ \E c \in ContentOf(db, Some(r.id)) :
                c.url = Some("u1") /\ c.markdown_content = Some(TxtHello)

====
